---- MODULE Spec2Model ----
(***************************************************************************)
(* Model of src/src/List.tsx: the virtual list component.  The component   *)
(* state (ListState), its props, the committed DOM it reads back through   *)
(* refs, and the lifecycle handlers componentDidMount, onScroll, render    *)
(* and componentDidUpdate.  Fractions (scrollPtg, itemOffsetPtg,           *)
(* startItemTop) are exact rationals [n, d] kept in lowest terms.          *)
(***************************************************************************)
EXTENDS Integers, Sequences, FiniteSets, TLC

\* ---------------------------------------------------------------- bounds
MaxLen == 4          \* longest data source
ViewHeight == 10     \* the configured viewport height, when one is configured
ScrollStep == 17     \* the user scrolls to multiples of this, or to the bottom
MaxEnvEvents == 3    \* user scrolls and data changes in one run

\* ------------------------------------------------------------- constants
ItemHeight == 15   \* defaultProps.itemHeight
NoHeight == -1     \* props.height === undefined
NullTop == -1      \* state.scrollTop === null

VARIABLES
  \* props
  dataSource,        \* this.props.dataSource: sequence of items (an item is its id)
  nextDataSource,    \* the data source the parent handed over, not yet rendered
  height,            \* this.props.height, or NoHeight
  itemKey,           \* whether props.itemKey is set
  \* this.state
  status, scrollTop, scrollPtg, itemIndex, itemOffsetPtg, startIndex, endIndex,
  startItemTop,
  \* instance fields
  listRef,           \* whether listRef.current is attached
  itemElements,      \* key -> item whose node the ref holds
  itemElementHeights,\* key -> measured height
  \* host environment
  nodeHeight,        \* item -> pixel height its rendered node has
  domScrollTop,      \* the scroll container's scrollTop
  rendered,          \* the committed render
  renderPending,     \* a render was requested and has not committed
  mounted, crashed,
  eventsLeft,        \* user scrolls and data changes still to come
  event              \* the kind of the last lifecycle step

state == <<status, scrollTop, scrollPtg, itemIndex, itemOffsetPtg, startIndex,
           endIndex, startItemTop>>
props == <<dataSource, height, itemKey>>
vars == <<dataSource, nextDataSource, height, itemKey, status, scrollTop,
          scrollPtg, itemIndex, itemOffsetPtg, startIndex, endIndex,
          startItemTop, listRef, itemElements, itemElementHeights, nodeHeight,
          domScrollTop, rendered, renderPending, mounted, crashed, eventsLeft, event>>

\* ------------------------------------------------------------ arithmetic
Max(a, b) == IF a >= b THEN a ELSE b
Min(a, b) == IF a <= b THEN a ELSE b
Abs(a) == IF a < 0 THEN -a ELSE a

RECURSIVE Gcd(_, _)
Gcd(a, b) == IF b = 0 THEN a ELSE Gcd(b, a % b)

\* the rational n/d (d > 0) in lowest terms
Frac(n, d) ==
  LET g == Gcd(Abs(n), d) IN [n |-> n \div g, d |-> d \div g]
Zero == [n |-> 0, d |-> 1]
Whole(i) == [n |-> i, d |-> 1]
FAdd(a, b) == Frac(a.n * b.d + b.n * a.d, a.d * b.d)
FSub(a, b) == Frac(a.n * b.d - b.n * a.d, a.d * b.d)
FMul(a, b) == Frac(a.n * b.n, a.d * b.d)
FLe(a, b) == a.n * b.d <= b.n * a.d
FLt(a, b) == a.n * b.d < b.n * a.d
Floor(a) == a.n \div a.d
Ceil(a) == -((-a.n) \div a.d)

\* ----------------------------------------------------------------- data
Items == 1..MaxLen
Base == [i \in 1..MaxLen |-> i]
\* the data sources a parent may hand over: every prefix of the base list
DataSources == {SubSeq(Base, 1, b) : b \in 0..MaxLen}
Heights == {NoHeight, 0, ViewHeight}
HeightProfiles ==
  { [i \in Items |-> ItemHeight],
    [i \in Items |-> ItemHeight - 1 + (i % 3)] }

\* Array.prototype.slice(from, to) on 0-based indices
Slice(list, from, to) == SubSeq(list, from + 1, Min(to, Len(list)))

\* ---------------------------------------------------------------- util
\* the mapper dividing by a scroll range one pixel short
getScrollPercentage_ShortRange(top, scrollHeight, clientHeight) ==
  IF scrollHeight <= clientHeight + 1 THEN Zero
  ELSE Frac(top, scrollHeight - clientHeight - 1)
\* getScrollPercentage: the Percentage Mapper
getScrollPercentage(top, scrollHeight, clientHeight) ==
  IF scrollHeight <= clientHeight THEN Zero
  ELSE Frac(top, scrollHeight - clientHeight)

\* getLocationItem: the Location Estimator
getLocationItem(ptg, total) ==
  LET index == Max(0, Min(Floor(FMul(ptg, Whole(total))), total - 1))
  IN [index |-> index,
      offsetPtg |-> FSub(FMul(ptg, Whole(total)), Whole(index))]

\* getNodeHeight: the committed height of the node a ref holds
getNodeHeight(elements, key) ==
  IF key \in DOMAIN elements THEN nodeHeight[elements[key]] ELSE 0

\* ------------------------------------------------------------- getItemKey
getItemKey(data, index) ==
  IF index < Len(data) /\ itemKey THEN data[index + 1] ELSE index

\* --------------------------------------------------------------- render
FastPath(data) == height = NoHeight \/ Len(data) * ItemHeight <= height

FillerOffset_Always == startItemTop
\* line 200: the offset handed to Filler
FillerOffset == IF status = "MEASURE_DONE" THEN startItemTop ELSE Zero

render(data) ==
  IF FastPath(data)
  THEN [mode |-> "full", first |-> 0, items |-> data,
        fillerHeight |-> height, offset |-> Zero,
        onScroll |-> FALSE, ref |-> FALSE]
  ELSE [mode |-> "virtual", first |-> startIndex,
        items |-> Slice(data, startIndex, endIndex + 1),
        fillerHeight |-> Len(data) * ItemHeight, offset |-> FillerOffset,
        onScroll |-> TRUE, ref |-> TRUE]

\* renderChildren: the refs the committed children attach, key -> item
renderChildren(data, r) ==
  LET keys == {getItemKey(data, r.first + i - 1) : i \in 1..Len(r.items)}
  IN [k \in keys |->
        r.items[CHOOSE i \in 1..Len(r.items) : getItemKey(data, r.first + i - 1) = k]]

\* the scroll range the container has for a committed render
MaxScrollTop(r) ==
  IF r.mode = "virtual" THEN Max(0, r.fillerHeight - height) ELSE 0

\* the offsets the user scrolls the container to
ScrollStops(r) ==
  {t \in 0..MaxScrollTop(r) : t % ScrollStep = 0 \/ t = MaxScrollTop(r)}

\* ------------------------------------------------------------- onScroll
\* the container geometry listRef.current reports
clientHeight == height
scrollHeight(r) == r.fillerHeight

ScrollSkipped_Never(top) == FALSE
\* line 119: skip if scrollTop did not change
ScrollSkipped(top) == top = scrollTop

visibleCount == Ceil(Frac(height, ItemHeight))
beforeCount(ptg) == Ceil(FMul(ptg, Whole(visibleCount)))
afterCount(ptg) == Ceil(FMul(FSub(Whole(1), ptg), Whole(visibleCount)))

LocatedItem_Inverted(ptg, data) ==
  getLocationItem(FSub(Whole(1), ptg), Len(data))
LocatedItem_OffByOne(ptg, data) == getLocationItem(ptg, Len(data) + 1)
\* line 125: the located item for the current props
LocatedItem(ptg, data) == getLocationItem(ptg, Len(data))
WindowStart_SignError(index, ptg) == Max(0, index + beforeCount(ptg))
\* lines 137-138
WindowStart(index, ptg) == Max(0, index - beforeCount(ptg))
WindowEnd_Unclamped(data, index, ptg) == index + afterCount(ptg)
WindowEnd(data, index, ptg) == Min(Len(data) - 1, index + afterCount(ptg))

\* onScroll against the committed render r, reading scrollTop = top off the
\* container; ev names the caller
onScroll(r, top, ev) ==
  IF ScrollSkipped(top)
  THEN /\ UNCHANGED state
       /\ renderPending' = renderPending
       /\ event' = "scrollIgnored"
  ELSE LET ptg == getScrollPercentage(top, scrollHeight(r), clientHeight)
           loc == LocatedItem(ptg, dataSource)
       IN /\ status' = "MEASURE_START"
          /\ scrollTop' = top
          /\ scrollPtg' = ptg
          /\ itemIndex' = loc.index
          /\ itemOffsetPtg' = loc.offsetPtg
          /\ startIndex' = WindowStart(loc.index, ptg)
          /\ endIndex' = WindowEnd(dataSource, loc.index, ptg)
          /\ UNCHANGED startItemTop
          /\ renderPending' = TRUE
          /\ event' = ev

\* --------------------------------------------------- componentDidUpdate
\* this.itemElementHeights[key] || 0
HeightOf(cache, key) == IF key \in DOMAIN cache THEN cache[key] ELSE 0

\* measuring through the refs of the render before this commit
MeasureWindow_BeforeCommit(data, elements) ==
  LET keys == {getItemKey(data, i) : i \in startIndex..endIndex}
  IN [k \in (DOMAIN itemElementHeights) \cup keys |->
        IF k \in keys THEN getNodeHeight(itemElements, k)
        ELSE itemElementHeights[k]]
\* lines 84-87: record the height of every item of the window
MeasureWindow(data, elements) ==
  LET keys == {getItemKey(data, i) : i \in startIndex..endIndex}
  IN [k \in (DOMAIN itemElementHeights) \cup keys |->
        IF k \in keys THEN getNodeHeight(elements, k)
        ELSE itemElementHeights[k]]

\* the walk stopping one item short of from
RECURSIVE SumHeights_SkipStart(_, _, _, _)
SumHeights_SkipStart(cache, data, from, to) ==
  IF to <= from THEN 0
  ELSE HeightOf(cache, getItemKey(data, to))
         + SumHeights_SkipStart(cache, data, from, to - 1)
\* lines 96-99: the heights of the items from..to, walked backward
RECURSIVE SumHeights(_, _, _, _)
SumHeights(cache, data, from, to) ==
  IF to < from THEN 0
  ELSE HeightOf(cache, getItemKey(data, to)) + SumHeights(cache, data, from, to - 1)

\* the corrector without the located item's own offset
StartItemTop_NoItemOffset(cache, data, top) ==
  LET locatedItemTop == FMul(scrollPtg, Whole(clientHeight))
      locatedItemMergedTop == FAdd(Whole(top), locatedItemTop)
  IN FSub(locatedItemMergedTop,
          Whole(SumHeights(cache, data, startIndex, itemIndex - 1)))
\* lines 90-99: the Offset Corrector
StartItemTop(cache, data, top) ==
  LET locatedItemHeight == HeightOf(cache, getItemKey(data, itemIndex))
      locatedItemTop == FMul(scrollPtg, Whole(clientHeight))
      locatedItemOffset == FMul(itemOffsetPtg, Whole(locatedItemHeight))
      locatedItemMergedTop ==
        FSub(FAdd(Whole(top), locatedItemTop), locatedItemOffset)
  IN FSub(locatedItemMergedTop,
          Whole(SumHeights(cache, data, startIndex, itemIndex - 1)))

\* line 82
ShouldMeasure == status = "MEASURE_START"

AfterMeasureStatus_Reset == "NONE"
\* line 101: the status componentDidUpdate sets
AfterMeasureStatus == "MEASURE_DONE"

\* componentDidUpdate after the commit of render r of data, with the refs
\* elements attached and the container at scrollTop = top
componentDidUpdate(r, data, elements, top) ==
  IF ShouldMeasure
  THEN LET cache == MeasureWindow(data, elements)
       IN /\ itemElementHeights' = cache
          /\ IF r.ref
             THEN /\ status' = AfterMeasureStatus
                  /\ startItemTop' = StartItemTop(cache, data, top)
                  /\ renderPending' = TRUE
                  /\ crashed' = FALSE
                  /\ event' = "commitMeasure"
             ELSE \* listRef.current is null: line 91 throws
                  /\ UNCHANGED <<status, startItemTop>>
                  /\ renderPending' = FALSE
                  /\ crashed' = TRUE
                  /\ event' = "commitCrash"
          /\ UNCHANGED <<scrollTop, scrollPtg, itemIndex, itemOffsetPtg,
                         startIndex, endIndex>>
  ELSE /\ UNCHANGED <<state, itemElementHeights>>
       /\ renderPending' = FALSE
       /\ crashed' = FALSE
       /\ event' = "commit"

\* ------------------------------------------------------------------ Init
NoRender == [mode |-> "none", first |-> 0, items |-> <<>>, fillerHeight |-> 0,
             offset |-> Zero, onScroll |-> FALSE, ref |-> FALSE]

Init ==
  /\ dataSource \in DataSources
  /\ nextDataSource = dataSource
  /\ height \in Heights
  /\ itemKey \in BOOLEAN
  /\ nodeHeight \in HeightProfiles
  /\ status = "NONE"
  /\ scrollTop = NullTop
  /\ scrollPtg = Zero
  /\ itemIndex = 0
  /\ itemOffsetPtg = Zero
  /\ startIndex = 0
  /\ endIndex = 0
  /\ startItemTop = Zero
  /\ listRef = FALSE
  /\ itemElements = << >>
  /\ itemElementHeights = << >>
  /\ domScrollTop = 0
  /\ rendered = NoRender
  /\ renderPending = FALSE
  /\ mounted = FALSE
  /\ crashed = FALSE
  /\ eventsLeft = MaxEnvEvents
  /\ event = "init"

\* --------------------------------------------------------------- actions
\* the first render commits, then componentDidMount runs
Mount ==
  /\ ~mounted /\ ~crashed
  /\ LET r == render(dataSource)
     IN /\ rendered' = r
        /\ listRef' = r.ref
        /\ itemElements' = renderChildren(dataSource, r)
        /\ mounted' = TRUE
        /\ IF r.ref
           THEN /\ domScrollTop' = 0
                /\ onScroll(r, 0, "mount")
                /\ crashed' = FALSE
           ELSE \* listRef.current is null: line 70 throws
                /\ UNCHANGED <<state, domScrollTop>>
                /\ renderPending' = FALSE
                /\ crashed' = TRUE
                /\ event' = "mountCrash"
  /\ UNCHANGED <<props, nextDataSource, itemElementHeights, nodeHeight,
                 eventsLeft>>

\* the user moves the scroll container
UserScroll ==
  /\ mounted /\ ~crashed
  /\ eventsLeft > 0
  /\ \E top \in ScrollStops(rendered) :
       /\ top # domScrollTop
       /\ domScrollTop' = top
  /\ eventsLeft' = eventsLeft - 1
  /\ event' = "userScroll"
  /\ UNCHANGED <<props, nextDataSource, state, listRef, itemElements,
                 itemElementHeights, nodeHeight, rendered, renderPending,
                 mounted, crashed>>

\* the container dispatches a scroll event to the attached listener
ScrollEvent ==
  /\ mounted /\ ~crashed
  /\ rendered.onScroll
  /\ onScroll(rendered, domScrollTop, "scrollAccepted")
  /\ UNCHANGED <<props, nextDataSource, listRef, itemElements,
                 itemElementHeights, nodeHeight, domScrollTop, rendered,
                 mounted, crashed, eventsLeft>>

\* the parent hands over another data source
DataChange ==
  /\ mounted /\ ~crashed
  /\ eventsLeft > 0
  /\ \E data \in DataSources :
       /\ data # nextDataSource
       /\ nextDataSource' = data
  /\ eventsLeft' = eventsLeft - 1
  /\ renderPending' = TRUE
  /\ event' = "dataChange"
  /\ UNCHANGED <<props, state, listRef, itemElements, itemElementHeights,
                 nodeHeight, domScrollTop, rendered, mounted, crashed>>

\* the requested render commits, then componentDidUpdate runs
Commit ==
  /\ mounted /\ ~crashed
  /\ renderPending
  /\ LET data == nextDataSource
         r == render(data)
         elements == renderChildren(data, r)
         top == Min(domScrollTop, MaxScrollTop(r))
     IN /\ dataSource' = data
        /\ rendered' = r
        /\ listRef' = r.ref
        /\ itemElements' = elements
        /\ domScrollTop' = top
        /\ componentDidUpdate(r, data, elements, top)
  /\ UNCHANGED <<nextDataSource, height, itemKey, nodeHeight, mounted,
                 eventsLeft>>

Next == Mount \/ UserScroll \/ ScrollEvent \/ DataChange \/ Commit

Spec == Init /\ [][Next]_vars

\* the same list with a data source that never changes
NextStable == Mount \/ UserScroll \/ ScrollEvent \/ Commit

SpecStable == Init /\ [][NextStable]_vars

\* ================================================================ claims
CommitEvents == {"commit", "commitMeasure", "commitCrash"}
MeasureEvents == {"commitMeasure", "commitCrash"}
Uniform == \A i \in Items : nodeHeight[i] = ItemHeight

\* C1: the phase changes only NONE -> MEASURE_START (mount or accepted
\* scroll), MEASURE_START -> MEASURE_DONE (render commit) and
\* MEASURE_DONE -> MEASURE_START (accepted scroll); every accepted scroll
\* leaves the phase MEASURE_START.
C1_PhaseCycle ==
  [][ /\ status' # status =>
           \/ /\ status = "NONE" /\ status' = "MEASURE_START"
              /\ event' \in {"mount", "scrollAccepted"}
           \/ /\ status = "MEASURE_START" /\ status' = "MEASURE_DONE"
              /\ event' = "commitMeasure"
           \/ /\ status = "MEASURE_DONE" /\ status' = "MEASURE_START"
              /\ event' = "scrollAccepted"
      /\ event' \in {"mount", "scrollAccepted"} => status' = "MEASURE_START"
    ]_vars
\* a second cycle was started by a scroll after a completed one
C1_Witness ==
  /\ status = "MEASURE_START" /\ event = "scrollAccepted"
  /\ startItemTop # Zero

\* C2: with a non-empty data source that does not change,
\* 0 <= startIndex <= itemIndex <= endIndex <= dataSource.length - 1.
C2_WindowOrder ==
  Len(dataSource) > 0 =>
    /\ 0 <= startIndex /\ startIndex <= itemIndex
    /\ itemIndex <= endIndex /\ endIndex <= Len(dataSource) - 1
C2_Witness ==
  /\ event = "scrollAccepted"
  /\ 0 < startIndex /\ startIndex < itemIndex
  /\ endIndex = Len(dataSource) - 1

\* C3 as stated: a render committed while the phase is MEASURE_START hands
\* Filler the corrected offset the prior cycle stored (0 before any cycle).
C3_PriorOffsetInMeasureStart ==
  [][ (event' = "commitMeasure" /\ rendered'.mode = "virtual")
        => rendered'.offset = startItemTop ]_vars
\* C3 amended: a virtualized render hands Filler the stored corrected offset
\* when the phase is MEASURE_DONE, and 0 in every other phase.
C3_OffsetOnlyWhenDone ==
  [][ (event' \in CommitEvents \cup {"mount"} /\ rendered'.mode = "virtual")
        => rendered'.offset =
             IF status = "MEASURE_DONE" THEN startItemTop ELSE Zero ]_vars
C3_Witness ==
  /\ event = "commit" /\ status = "MEASURE_DONE"
  /\ rendered.mode = "virtual" /\ rendered.offset # Zero

\* C4: a scroll event that observes the scrollTop recorded in state changes
\* neither the state nor the height cache, and requests no render.
C4_UnchangedScrollIgnored ==
  [][ (event' \in {"scrollAccepted", "scrollIgnored"} /\ domScrollTop = scrollTop)
        => /\ event' = "scrollIgnored"
           /\ UNCHANGED <<state, itemElementHeights, renderPending, rendered>>
    ]_vars
C4_Witness ==
  /\ event = "scrollIgnored" /\ status = "MEASURE_DONE" /\ ~renderPending

\* C5: the height cache is written only by a render commit, and a
\* measurement pass reads, for every item of the window, the node of the
\* render that has just committed.
C5_MeasureAfterCommit ==
  /\ [](event \in MeasureEvents =>
          /\ rendered.mode = "virtual" =>
               /\ rendered.first = startIndex
               /\ rendered.items = Slice(dataSource, startIndex, endIndex + 1)
          /\ \A i \in startIndex..endIndex :
               i < Len(dataSource) =>
                 LET key == getItemKey(dataSource, i)
                 IN /\ key \in DOMAIN itemElements
                    /\ itemElements[key] = dataSource[i + 1]
                    /\ key \in DOMAIN itemElementHeights
                    /\ itemElementHeights[key] = nodeHeight[dataSource[i + 1]])
  /\ [][itemElementHeights' # itemElementHeights
          => event' \in MeasureEvents]_vars
\* a window that does not start at the top was measured after a scroll
C5_Witness ==
  /\ event = "commitMeasure" /\ startIndex > 0 /\ startIndex < endIndex

\* C6: while the fast-path condition holds, from mount on, every item is
\* rendered in order with no scroll listener, and the render driver does
\* nothing: state and height cache stay as they are and nothing throws.
C6_FastPathNotEngaged ==
  [][ (mounted' /\ FastPath(dataSource') /\ (~mounted \/ FastPath(dataSource)))
        => /\ rendered'.mode = "full"
           /\ rendered'.items = dataSource'
           /\ ~rendered'.onScroll
           /\ UNCHANGED <<state, itemElementHeights>>
           /\ ~crashed' ]_vars

\* C7: no sequence of events reaches a fatal error.
C7_NoFatalError == ~crashed

\* C8: after the commit that follows a change of the data source length,
\* the window bounds lie in the new index range.
C8_WindowReclamped ==
  [][ (/\ event' \in CommitEvents
       /\ Len(dataSource') # Len(dataSource)
       /\ Len(dataSource') > 0)
        => /\ 0 <= startIndex' /\ startIndex' <= endIndex'
           /\ endIndex' <= Len(dataSource') - 1 ]_vars

C10_LocatedIndexInRange ==
  event \in {"mount", "scrollAccepted"} =>
    LET N == Len(dataSource)
        pN == FMul(scrollPtg, Whole(N))
    IN /\ N >= 1
       /\ FLe(Zero, scrollPtg) /\ FLe(scrollPtg, Whole(1))
       /\ 0 <= itemIndex /\ itemIndex < N
       /\ IF scrollPtg = Whole(1) THEN itemIndex = N - 1
          ELSE FLe(Whole(itemIndex), pN) /\ FLt(pN, Whole(itemIndex + 1))
C10_Witness ==
  /\ event = "scrollAccepted" /\ scrollPtg = Whole(1)
  /\ itemIndex = Len(dataSource) - 1 /\ itemIndex > 0

C12_LocatedIndexMonotone ==
  [][ (event' = "scrollAccepted" /\ scrollTop # NullTop)
        => /\ scrollTop <= scrollTop' => itemIndex <= itemIndex'
           /\ scrollTop' <= scrollTop => itemIndex' <= itemIndex ]_vars
\* a scroll back up after a scroll down, each with its own located item
C12_Witness ==
  /\ event = "scrollAccepted" /\ eventsLeft = MaxEnvEvents - 2
  /\ scrollTop > 0 /\ itemIndex > 0 /\ itemIndex < Len(dataSource) - 1

\* C13: scrollPtg is in [0,1] in every state, and the Percentage Mapper
\* gives 0 for a container whose scrollable height is its viewport height.
C13_PercentageInUnitRange ==
  /\ FLe(Zero, scrollPtg) /\ FLe(scrollPtg, Whole(1))
  /\ height # NoHeight =>
       \A top \in 0..MaxScrollTop(rendered) :
         getScrollPercentage(top, clientHeight, clientHeight) = Zero
C13_Witness ==
  /\ event = "scrollAccepted" /\ scrollPtg = Whole(1) /\ height = 0

\* C14: the height cache changes only in the step MEASURE_START ->
\* MEASURE_DONE; a measurement pass leaves the key of every index of the
\* window mapped to the height of the node rendered for it and every other
\* entry as it was; no step removes an entry.
C14_CacheWrittenOncePerCycle ==
  /\ [][itemElementHeights' # itemElementHeights
          => status = "MEASURE_START" /\ status' = "MEASURE_DONE"]_vars
  /\ [][event' \in MeasureEvents =>
          /\ \A i \in startIndex'..endIndex' :
                LET key == getItemKey(dataSource', i)
                IN /\ key \in DOMAIN itemElements'
                   /\ key \in DOMAIN itemElementHeights'
                   /\ itemElementHeights'[key] = nodeHeight[itemElements'[key]]
          /\ \A k \in DOMAIN itemElementHeights :
                k \notin {getItemKey(dataSource', i) : i \in startIndex'..endIndex'}
                  => itemElementHeights'[k] = itemElementHeights[k]
       ]_vars
  /\ [][DOMAIN itemElementHeights \subseteq DOMAIN itemElementHeights']_vars

\* the cached height of the item at index i, 0 when its key has no entry
CachedHeight(i) ==
  LET key == getItemKey(dataSource, i)
  IN IF key \in DOMAIN itemElementHeights THEN itemElementHeights[key] ELSE 0
RECURSIVE HeightsFrom(_, _)
HeightsFrom(i, last) ==
  IF i > last THEN 0 ELSE CachedHeight(i) + HeightsFrom(i + 1, last)

\* C15: the corrected offset stored by MEASURE_START -> MEASURE_DONE is
\* scrollOffset + scrollPtg * height - itemOffsetPtg * h(itemIndex)
\* - sum of h(i) for startIndex <= i <= itemIndex - 1, h the cached height
\* of an index's key (0 without entry).
C15_CorrectedOffset ==
  event = "commitMeasure" =>
    LET pd == scrollPtg.d
        fd == itemOffsetPtg.d
        num == (domScrollTop - HeightsFrom(startIndex, itemIndex - 1)) * pd * fd
                 + scrollPtg.n * height * fd
                 - itemOffsetPtg.n * CachedHeight(itemIndex) * pd
    IN startItemTop.n * (pd * fd) = num * startItemTop.d
C15_Witness ==
  /\ event = "commitMeasure" /\ ~Uniform
  /\ startIndex < itemIndex /\ itemOffsetPtg.n > 0 /\ startIndex > 0

\* C16: every cycle started by an accepted scroll reaches MEASURE_DONE
\* after one measurement pass: while the phase is MEASURE_START a render is
\* pending and can commit, the commit made in MEASURE_START ends in
\* MEASURE_DONE, and the commit of the corrective render requests no render
\* and keeps the phase.
C16_CycleCompletes ==
  /\ [](status = "MEASURE_START" => renderPending /\ ~crashed)
  /\ [][ (event' \in CommitEvents /\ status = "MEASURE_START")
           => status' = "MEASURE_DONE" ]_vars
  /\ [][ (event' = "commit" /\ status = "MEASURE_DONE")
           => ~renderPending' /\ status' = "MEASURE_DONE" ]_vars

C18_DoneStateOfOneCycle ==
  status = "MEASURE_DONE" =>
    /\ startItemTop = StartItemTop(itemElementHeights, dataSource, scrollTop)
    /\ Len(dataSource) > 0 => endIndex <= Len(dataSource) - 1

\* C19: the scroll offset componentDidUpdate reads off the container when
\* it corrects the offset is the scrollTop the cycle's scroll event stored.
C19_CommitReadsProcessedOffset ==
  event = "commitMeasure" => domScrollTop = scrollTop

====
